---- MODULE Spec2Model ----
(***************************************************************************)
(* Prompt enhancer: the orchestration core.                                *)
(*                                                                         *)
(* One behaviour of Spec is one call of a public operation                 *)
(*   analyze_prompt / refine_prompt (core/orchestrator.py) or              *)
(*   refine_iterative (agents/refiner.py)                                  *)
(* with every reply of the inference service and of the store chosen       *)
(* nondeterministically at the await where the code consumes it.           *)
(* SessionSpec makes such calls one after the other on the same            *)
(* collections; RouterSpec is CategoryRouter.detect_category alone, over   *)
(* more replies and more texts.                                            *)
(* QuestionsSpec and StoreSpec are get_questions_for_missing and           *)
(* get_top_improvements on their own; HandlerSpec is the bot's handlers    *)
(* interleaved on the sessions collection; ProcessSpec is the process of   *)
(* app.py: its import, its request threads, its event loop and its bot.    *)
(*                                                                         *)
(* Texts are identified by provenance: 0 is the caller's prompt, k > 0 is  *)
(* the cleaned reply of the k-th successful rewrite call of the run.       *)
(* A JSON object is a function from its keys; dict.get is Get.             *)
(***************************************************************************)
EXTENDS Integers, Sequences, FiniteSets, TLC

(* ------------------------------ bounds -------------------------------- *)

\* the largest max_iterations a caller passes
MaxIterBound == 3

\* the number of calls a session makes one after the other
MaxCalls == 2

\* the number of times one text is classified
MaxDetects == 2

\* the longest list handed to get_questions_for_missing
MaxParams == 3

\* the largest max_questions handed to get_questions_for_missing
MaxQuestions == 4

\* the largest number of records in the prompts collection that is queried
MaxDocs == 3

\* the largest limit handed to get_top_improvements
MaxLimit == 2

\* the number of bot handlers that run on the event loop
MaxHandlers == 3

\* the number of HTTP requests the process serves at the same time
MaxRequests == 3

(* ------------------------- program constants -------------------------- *)

MAX_ITERATIONS == 3
TARGET_SCORE == 8
DEFAULT_SCORE == 5
SCORE_GE == 1
SCORE_LE == 10
\* confidences are in percent: 0.7 is 70
MIN_CONFIDENCE == 70
MAX_QUESTIONS == 3

FALLBACK_EXPLANATION == "fallback_explanation"

(* ------------------------------ helpers ------------------------------- *)

\* Optional values are sequences of length 0 (None) or 1.
None == <<>>
Some(v) == <<v>>

\* dict.get(key, default)
Get(obj, key, default) == IF key \in DOMAIN obj THEN obj[key] ELSE default

Last(s) == s[Len(s)]

RECURSIVE SeqFilterCount(_, _, _)
SeqFilterCount(s, i, opname) ==
    IF i > Len(s) THEN 0
    ELSE (IF s[i].op = opname THEN 1 ELSE 0) + SeqFilterCount(s, i + 1, opname)

(* -------------------------- core/models.py ---------------------------- *)

PromptCategory ==
    {"code", "creative", "image_generation", "analysis", "business",
     "education", "general"}

\* Weakness(**w): type, description and suggestion are required, severity
\* defaults to "medium"; every field is an unconstrained str.
WeaknessValid(w) == {"type", "description", "suggestion"} \subseteq DOMAIN w

Weakness(w) ==
    [type |-> w["type"], description |-> w["description"],
     suggestion |-> w["suggestion"], severity |-> Get(w, "severity", "medium")]

\* MissingParameter(**p): name and question are required.
MissingParameterValid(p) == {"name", "question"} \subseteq DOMAIN p

MissingParameter(p) ==
    [name |-> p["name"], question |-> p["question"],
     importance |-> Get(p, "importance", "recommended")]

\* mutant: the bounds of overall_score are not enforced
ScoreValid_any(s) == TRUE

\* overall_score: int = Field(default=5, ge=1, le=10)
ScoreValid(s) == SCORE_GE <= s /\ s <= SCORE_LE

CritiqueResult(ws, mps, tips, score, ready) ==
    [weaknesses |-> ws, missing_params |-> mps, pro_tips |-> tips,
     overall_score |-> score, is_ready |-> ready]

(* ----------------------- the inference service ------------------------ *)

\* A reply either fails (generate_content_async raises) or carries a text.
\* A text is not JSON, or is a JSON array, or is a JSON object.
CallError == [fails |-> TRUE]
NotJson == [fails |-> FALSE, json |-> FALSE]
JsonArray == [fails |-> FALSE, json |-> TRUE, type |-> "array"]
JsonObject(obj) == [fails |-> FALSE, json |-> TRUE, type |-> "object", value |-> obj]

OkWeakness == [type |-> "ambiguity", description |-> "d", suggestion |-> "s"]
\* a missing parameter the critic itself reports in "missing_params"
OkMissing == [name |-> "audience", question |-> "q_audience"]
\* a weakness that lacks the required description and suggestion
BadWeakness == [type |-> "ambiguity"]

\* overall_score values a reply carries: below target, at or above target,
\* and outside 1..10
ReplyScores == {4, 9, 11}
ReplyWeaknessLists == {<<OkWeakness>>, <<BadWeakness>>}

CritiqueObjects ==
    {[overall_score |-> s, is_ready |-> r, weaknesses |-> ws] :
        s \in ReplyScores, r \in BOOLEAN, ws \in ReplyWeaknessLists}
    \cup {[weaknesses |-> <<OkWeakness>>, missing_params |-> <<OkMissing>>],
          [overall_score |-> 9], [overall_score |-> 0]}

CritiqueReplies ==
    {CallError, NotJson, JsonArray} \cup {JsonObject(o) : o \in CritiqueObjects}

\* the rewrite and the explanation replies: a failure or a text
TextReplies == {CallError, [fails |-> FALSE]}

(* ---------------------- agents/shadow_critic.py ----------------------- *)

Raised(exc) == [raised |-> TRUE, exc |-> exc]
Returned(v) == [raised |-> FALSE, value |-> v]

\* the fallback result of the JSONDecodeError handler
DegradedCritique ==
    CritiqueResult(
        <<[type |-> "unknown", description |-> "parse_failed",
           suggestion |-> "retry", severity |-> "medium"]>>,
        <<>>, <<>>, DEFAULT_SCORE, FALSE)

\* ShadowCritic.critique once the service has replied: json.loads, the
\* pydantic models, and the two except clauses
ShadowCritic_parse(reply) ==
    IF ~reply.json THEN Returned(DegradedCritique)
    ELSE IF reply.type # "object" THEN Raised("AttributeError")
    ELSE LET result == reply.value
             ws == Get(result, "weaknesses", <<>>)
             mps == Get(result, "missing_params", <<>>)
             score == Get(result, "overall_score", DEFAULT_SCORE)
         IN  IF \E i \in DOMAIN ws : ~WeaknessValid(ws[i])
                 THEN Raised("ValidationError")
             ELSE IF \E i \in DOMAIN mps : ~MissingParameterValid(mps[i])
                 THEN Raised("ValidationError")
             ELSE IF ~ScoreValid(score) THEN Raised("ValidationError")
             ELSE Returned(CritiqueResult(
                     [i \in DOMAIN ws |-> Weakness(ws[i])],
                     [i \in DOMAIN mps |-> MissingParameter(mps[i])],
                     Get(result, "pro_tips", <<>>),
                     score,
                     Get(result, "is_ready", FALSE)))

\* mutant: a failed call is answered with the fallback result
ShadowCritic_critique_swallow(reply) ==
    IF reply.fails THEN Returned(DegradedCritique) ELSE ShadowCritic_parse(reply)

\* ShadowCritic.critique, from the reply of its one inference call: a call
\* that fails is logged and re-raised
ShadowCritic_critique(reply) ==
    IF reply.fails THEN Raised("call") ELSE ShadowCritic_parse(reply)

(* --------------------- agents/category_router.py ---------------------- *)

\* The keyword table, in its insertion order, cut down to a few keywords of
\* each category (Hebrew keywords transliterated). A prompt is the set of
\* table keywords that occur in its lower-cased text.
keyword_hints ==
    << [category |-> "code",
          keywords |-> {"funktsia", "python", "api", "javascript", "debug"}],
       [category |-> "image_generation", keywords |-> {"render", "image"}],
       [category |-> "creative", keywords |-> {"ktov", "sipur", "shivuk"}],
       [category |-> "analysis", keywords |-> {"data"}],
       [category |-> "business", keywords |-> {"roi", "shivuk"}],
       [category |-> "education", keywords |-> {"tutorial", "guide"}] >>

Min(a, b) == IF a <= b THEN a ELSE b

KeywordScore(i, prompt) == Cardinality(keyword_hints[i].keywords \cap prompt)

\* the categories that matched, and the largest score among them
Matched(prompt) == {i \in DOMAIN keyword_hints : KeywordScore(i, prompt) > 0}
MaxScore(prompt) ==
    LET scores == Matched(prompt)
    IN  KeywordScore(CHOOSE i \in scores :
                        \A j \in scores : KeywordScore(j, prompt) <= KeywordScore(i, prompt),
                     prompt)

\* mutant: the confidence is not capped at 0.9
CategoryRouter_detect_with_keywords_uncapped(prompt) ==
    LET scores == Matched(prompt)
    IN  IF scores = {} THEN <<"general", 30>>
        ELSE LET best == CHOOSE i \in scores :
                            /\ KeywordScore(i, prompt) = MaxScore(prompt)
                            /\ \A j \in scores :
                                  KeywordScore(j, prompt) = MaxScore(prompt) => i <= j
             IN  <<keyword_hints[best].category, 30 + MaxScore(prompt) * 15>>

\* mutant: among the categories with the largest score the last one wins
CategoryRouter_detect_with_keywords_last(prompt) ==
    LET scores == Matched(prompt)
    IN  IF scores = {} THEN <<"general", 30>>
        ELSE LET best == CHOOSE i \in scores :
                            /\ KeywordScore(i, prompt) = MaxScore(prompt)
                            /\ \A j \in scores :
                                  KeywordScore(j, prompt) = MaxScore(prompt) => j <= i
             IN  <<keyword_hints[best].category, Min(90, 30 + MaxScore(prompt) * 15)>>

\* CategoryRouter._detect_with_keywords: max() keeps the first category of
\* the table among those with the largest score.
CategoryRouter_detect_with_keywords(prompt) ==
    LET scores == {i \in DOMAIN keyword_hints : KeywordScore(i, prompt) > 0}
    IN  IF scores = {} THEN <<"general", 30>>
        ELSE LET best == CHOOSE i \in scores : \A j \in scores :
                            \/ KeywordScore(j, prompt) < KeywordScore(i, prompt)
                            \/ /\ KeywordScore(j, prompt) = KeywordScore(i, prompt)
                               /\ i <= j
                 max_score == KeywordScore(best, prompt)
             IN  <<keyword_hints[best].category, Min(90, 30 + max_score * 15)>>

\* CategoryRouter._detect_with_ai, from the reply of its inference call
CategoryRouter_detect_with_ai(reply) ==
    IF reply.fails THEN Raised("call")
    ELSE IF ~reply.json THEN Raised("JSONDecodeError")
    ELSE IF reply.type # "object" THEN Raised("TypeError")
    ELSE LET result == reply.value
         IN  IF "category" \notin DOMAIN result THEN Raised("KeyError")
             ELSE IF result["category"] \notin PromptCategory THEN Raised("ValueError")
             ELSE IF "confidence" \notin DOMAIN result THEN Raised("KeyError")
             ELSE Returned(<<result["category"], result["confidence"]>>)

\* mutant: the reply of the service is taken whatever its confidence
CategoryRouter_detect_category_no_threshold(reply, prompt) ==
    LET ai == CategoryRouter_detect_with_ai(reply)
    IN  IF ~ai.raised THEN ai.value
        ELSE CategoryRouter_detect_with_keywords(prompt)

\* CategoryRouter.detect_category
CategoryRouter_detect_category(reply, prompt) ==
    LET ai == CategoryRouter_detect_with_ai(reply)
    IN  IF ~ai.raised /\ ai.value[2] >= MIN_CONFIDENCE THEN ai.value
        ELSE CategoryRouter_detect_with_keywords(prompt)

ClassifyReplies ==
    {CallError,
     JsonObject([category |-> "creative", confidence |-> 95]),
     JsonObject([category |-> "business", confidence |-> 50])}

Prompts == {{}, {"ktov", "funktsia"}}

\* The replies detect_category is checked against on its own: a failure, a
\* text that is not JSON, a JSON array, objects that lack a key or name no
\* category, and confidences below 0, below 0.7, at 0.7, at 1 and above 1.
RouterReplies ==
    {CallError, NotJson, JsonArray,
     JsonObject([confidence |-> 90]),
     JsonObject([category |-> "code"]),
     JsonObject([category |-> "poetry", confidence |-> 90])}
    \cup {JsonObject([category |-> "analysis", confidence |-> c]) :
             c \in {-10, 69, 70, 100, 150}}

\* the texts: every combination of these table keywords
RouterKeywords ==
    {"funktsia", "python", "api", "javascript", "debug", "ktov", "shivuk"}
RouterPrompts == SUBSET RouterKeywords

(* -------------------- agents/parameter_validator.py ------------------- *)

\* mutant: the entries that can be read are kept
ParameterValidator_validate_partial(reply) ==
    IF reply.fails \/ ~reply.json THEN <<>>
    ELSE IF reply.type # "object" THEN <<>>
    ELSE LET missing == SelectSeq(Get(reply.value, "missing", <<>>), MissingParameterValid)
         IN  [i \in DOMAIN missing |-> MissingParameter(missing[i])]

\* ParameterValidator.validate, from the reply of its inference call: every
\* exception ends in the empty list.
ParameterValidator_validate(reply) ==
    IF reply.fails \/ ~reply.json THEN <<>>
    ELSE IF reply.type # "object" THEN <<>>
    ELSE LET missing == Get(reply.value, "missing", <<>>)
             found == Get(reply.value, "found", <<>>)
         IN  IF \E i \in DOMAIN missing : ~MissingParameterValid(missing[i])
                 THEN <<>>
             ELSE IF \E i \in DOMAIN found : "name" \notin DOMAIN found[i]
                 THEN <<>>
             ELSE [i \in DOMAIN missing |-> MissingParameter(missing[i])]

IsRequired(p) == p.importance = "required"
NotRequired(p) == p.importance # "required"

Take(s, k) == SubSeq(s, 1, Min(k, Len(s)))

\* mutant: the list is cut before it is sorted
ParameterValidator_get_questions_for_missing_cut_first(missing_params, max_questions) ==
    LET cut == Take(missing_params, max_questions)
        sorted_params == SelectSeq(cut, IsRequired) \o SelectSeq(cut, NotRequired)
    IN  [i \in DOMAIN sorted_params |->
            <<IF sorted_params[i].importance = "required" THEN "!" ELSE "?",
              sorted_params[i].question>>]

\* ParameterValidator.get_questions_for_missing: sorted() is stable
ParameterValidator_get_questions_for_missing(missing_params, max_questions) ==
    LET sorted_params ==
            SelectSeq(missing_params, IsRequired) \o SelectSeq(missing_params, NotRequired)
        head == Take(sorted_params, max_questions)
    IN  [i \in DOMAIN head |->
            <<IF head[i].importance = "required" THEN "!" ELSE "?", head[i].question>>]

ValidateReplies ==
    {CallError,
     JsonObject([missing |-> <<[name |-> "language", question |-> "q_language",
                               importance |-> "required"]>>])}

\* further replies of the validator's call: text that is not JSON, JSON that
\* is not an object, an object without the "missing" key, a list whose
\* second entry has no "question", and a "found" entry without a "name"
MixedMissing == JsonObject([missing |-> <<OkMissing, [name |-> "tone"]>>])
MalformedValidateReplies ==
    {NotJson, JsonArray,
     JsonObject([found |-> <<>>]),
     MixedMissing,
     JsonObject([found |-> <<[value_in_prompt |-> "v"]>>, missing |-> <<OkMissing>>])}

(* ------------------------- agents/refiner.py -------------------------- *)

\* mutant: a failed call returns the text unchanged
PromptRefiner_refine_noop(original_prompt, reply, new_text) ==
    Returned(IF reply.fails THEN original_prompt ELSE new_text)

\* PromptRefiner.refine of original_prompt, from the reply of its inference
\* call; new_text names the cleaned reply text.
PromptRefiner_refine(original_prompt, reply, new_text) ==
    IF reply.fails THEN Raised("call") ELSE Returned(new_text)

\* mutant: no fallback sentence
PromptRefiner_generate_explanation_empty(reply) ==
    IF reply.fails THEN "" ELSE "explanation"

\* PromptRefiner.generate_explanation
PromptRefiner_generate_explanation(reply) ==
    IF reply.fails THEN FALLBACK_EXPLANATION ELSE "explanation"

\* mutant: the readiness flag is ignored
TargetReached_score_only(critique, target) ==
    critique.overall_score >= target

\* the stop test of refine_iterative
TargetReached(critique, target) ==
    critique.overall_score >= target \/ critique.is_ready

(* ------------------------------- state -------------------------------- *)

VARIABLES
    op,                 \* the public operation called
    prompt,             \* its text argument (text 0)
    max_iterations_arg, \* its max_iterations argument, None when not passed
    use_iterations,     \* refine_prompt's use_iterations argument
    front_end,          \* the handler that makes the call: bot, api or none
    call_no,            \* the number of the call in the process's life
    pc,                 \* the await the call is suspended at, done or raised
    category,           \* the resolved category
    confidence,         \* its confidence, in percent
    initial_critique,   \* analysis["critique"], None before it exists
    target_score,       \* refine_iterative: its target_score parameter
    iteration,          \* refine_iterative: the loop variable (0-based)
    current_prompt,     \* refine_iterative: the text being improved
    critiques_history,  \* refine_iterative: the critiques made so far
    loop_result,        \* what refine_iterative returned, None before
    improved_prompt,    \* refine_prompt locals
    iterations_used,
    final_critique,
    explanation,
    db,                 \* the prompts collection: the records inserted
    sessions,           \* the sessions collection: the user's document
    returned,           \* refine_prompt calls that have returned a result
    save_failed,        \* inserts into the prompts collection that failed
    result,             \* what analyze_prompt / refine_prompt returned
    error,              \* the exception that left the operation, if any
    calls,              \* the calls made to the collaborators, in order
    missing_params_in,  \* get_questions_for_missing: its missing_params
    max_questions_in,   \* get_questions_for_missing: its max_questions
    query,              \* get_top_improvements: its arguments
    handlers,           \* bot.py: the handlers running on the event loop
    last_write,         \* per user, the last write the sessions collection applied
    improve_saved,      \* per user, the saves of a pending improve request applied
    serial,             \* no two handlers have been in progress together
    MongoDB_client,     \* MongoDB._client (and MongoDB._db with it)
    clients_created,    \* the AsyncIOMotorClient objects constructed
    loop,               \* app._loop
    loops_created,      \* the event loops constructed
    bot_app,            \* app.bot_app: whether it is set
    bot_initialized,    \* app.bot_initialized
    initialize_calls,   \* the calls of bot_app.initialize() made
    threads             \* app.py: the request threads and their coroutines

vars == <<op, prompt, max_iterations_arg, use_iterations, front_end, call_no,
          pc, category, confidence, initial_critique, target_score, iteration,
          current_prompt, critiques_history, loop_result, improved_prompt,
          iterations_used, final_critique, explanation, db, sessions,
          returned, save_failed, result, error, calls,
          missing_params_in, max_questions_in, query, handlers, last_write,
          improve_saved, serial, MongoDB_client, clients_created, loop, loops_created,
          bot_app, bot_initialized, initialize_calls, threads>>

loopVars == <<target_score, iteration, current_prompt, critiques_history, loop_result>>
refineVars == <<improved_prompt, iterations_used, final_critique, explanation>>
questionVars == <<missing_params_in, max_questions_in>>
handlerVars == <<handlers, last_write, improve_saved, serial>>
processVars == <<MongoDB_client, clients_created, loop, loops_created, bot_app,
                 bot_initialized, initialize_calls, threads>>
processVarsButThreads == <<MongoDB_client, clients_created, loop, loops_created,
                           bot_app, bot_initialized, initialize_calls>>
\* the state of the components the orchestration core does not touch
compVars == <<questionVars, query, handlerVars, processVars>>
argVars == <<op, prompt, max_iterations_arg, use_iterations, front_end, call_no,
             compVars>>
tallyVars == <<sessions, returned, save_failed>>

\* the text of the caller's prompt
ORIGINAL == 0

\* refine_prompt: max_iterations = config.MAX_ITERATIONS when None is passed;
\* refine_iterative: the parameter
max_iterations ==
    IF max_iterations_arg = None THEN MAX_ITERATIONS ELSE max_iterations_arg[1]

\* the number of calls of one kind made so far
Count(opname) == SeqFilterCount(calls, 1, opname)

\* the calls refine_iterative has made: its critiques and its rewrites
IsLoopCall(e) == e.site = "loop"
LoopCalls == SelectSeq(calls, IsLoopCall)
IsLoopCritique(e) == e.site = "loop" /\ e.op = "critique"
LoopCritiques == SelectSeq(calls, IsLoopCritique)
IsLoopRewrite(e) == e.site = "loop" /\ e.op = "rewrite"
LoopRewrites == SelectSeq(calls, IsLoopRewrite)

\* the text a rewrite call returns: the next text not seen in the run
NewText == Count("rewrite") + 1

IterationArgs == {Some(n) : n \in -1 .. MaxIterBound}

\* the target_score values a direct caller of refine_iterative passes
LoopTargets == {DEFAULT_SCORE, TARGET_SCORE}

\* who calls analyze_prompt: bot.analyze_prompt, app.api_analyze, or a
\* direct caller of the core
FrontEnds == {"none", "bot", "api"}

\* the user of the run
USER == "u"

\* the user_answers the caller of refine_prompt passes
USER_ANSWERS == Some("answers")

\* no call of get_questions_for_missing is under way
QuestionsIdle ==
    /\ missing_params_in = <<>>
    /\ max_questions_in = 0

\* no call of get_top_improvements is under way
QueryIdle == query = None

\* no handler of the bot is running
HandlersIdle ==
    /\ handlers = <<>>
    /\ last_write = <<>>
    /\ improve_saved = <<>>
    /\ serial = TRUE

\* the process after its imports (core/orchestrator.py:235 has constructed
\* the orchestrator and with it MongoDB()), before any request
ProcessIdle ==
    /\ MongoDB_client = Some(1)
    /\ clients_created = 1
    /\ loop = None
    /\ loops_created = 0
    /\ bot_app = FALSE
    /\ bot_initialized = FALSE
    /\ initialize_calls = 0
    /\ threads = <<>>

ComponentsIdle == QuestionsIdle /\ QueryIdle /\ HandlersIdle /\ ProcessIdle

Init ==
    /\ ComponentsIdle
    /\ op \in {"analyze_prompt", "refine_prompt", "refine_iterative"}
    /\ prompt \in Prompts
    /\ max_iterations_arg \in
          CASE op = "analyze_prompt" -> {None}
            [] op = "refine_prompt" -> {None} \cup IterationArgs
            [] op = "refine_iterative" -> IterationArgs
    /\ use_iterations \in (IF op = "refine_prompt" THEN BOOLEAN ELSE {TRUE})
    /\ front_end \in (IF op = "analyze_prompt" THEN FrontEnds ELSE {"none"})
    /\ call_no = 1
    /\ pc = (IF op = "refine_iterative" THEN "loop_head" ELSE "classify")
    /\ category = (IF op = "refine_iterative" THEN "general" ELSE "unset")
    /\ confidence = 0
    /\ initial_critique = None
    /\ target_score \in (IF op = "refine_iterative" THEN LoopTargets ELSE {0})
    /\ iteration = 0
    /\ current_prompt = ORIGINAL
    /\ critiques_history = <<>>
    /\ loop_result = None
    /\ improved_prompt = ORIGINAL
    /\ iterations_used = 0
    /\ final_critique = None
    /\ explanation = ""
    /\ db = <<>>
    /\ sessions = None
    /\ returned = 0
    /\ save_failed = 0
    /\ result = None
    /\ error = None
    /\ calls = <<>>

\* an exception leaves the operation
Raise(exc) ==
    /\ pc' = "raised"
    /\ error' = Some(exc)

(* ------------------ core/orchestrator.py: analyze_prompt -------------- *)

\* category, confidence = await self.category_router.detect_category(prompt)
Classify ==
    /\ pc = "classify"
    /\ \E reply \in ClassifyReplies :
          LET r == CategoryRouter_detect_category(reply, prompt)
          IN  /\ category' = r[1]
              /\ confidence' = r[2]
              /\ calls' = Append(calls, [op |-> "classify", site |-> "analyze",
                                         text |-> ORIGINAL, reply |-> reply,
                                         out |-> r])
    /\ pc' = "analyze_critique"
    /\ UNCHANGED <<argVars, tallyVars, initial_critique, loopVars, refineVars, db, result, error>>

\* mutant: the critic and the validator are handed the general category
AnalyzeCategory_general == "general"

\* the local category of analyze_prompt, which it hands to critique and to
\* validate
AnalyzeCategory == category

\* critique = await self.shadow_critic.critique(prompt, category)
AnalyzeCritique ==
    /\ pc = "analyze_critique"
    /\ \E reply \in CritiqueReplies :
          LET out == ShadowCritic_critique(reply)
          IN  /\ calls' = Append(calls, [op |-> "critique", site |-> "analyze",
                                         text |-> ORIGINAL, category |-> AnalyzeCategory,
                                         reply |-> reply, out |-> out])
              /\ IF out.raised
                    THEN Raise(out.exc) /\ UNCHANGED initial_critique
                    ELSE /\ initial_critique' = Some(out.value)
                         /\ pc' = "validate"
                         /\ UNCHANGED error
    /\ UNCHANGED <<argVars, tallyVars, category, confidence, loopVars, refineVars, db, result>>

\* the dict analyze_prompt returns
Analysis(cat, conf, critique, questions) ==
    [original_prompt |-> ORIGINAL, category |-> cat, confidence |-> conf,
     critique |-> critique, questions |-> questions]

\* the replies analyze_prompt's validation is checked with
AnalyzeValidateReplies ==
    IF op = "analyze_prompt" THEN ValidateReplies \cup MalformedValidateReplies
    ELSE ValidateReplies

\* missing_params = await self.param_validator.validate(prompt, category),
\* critique.missing_params = missing_params, the questions, the return
AnalyzeValidate ==
    /\ pc = "validate"
    /\ \E reply \in AnalyzeValidateReplies :
          LET missing_params == ParameterValidator_validate(reply)
              critique == [initial_critique[1] EXCEPT !.missing_params = missing_params]
              questions == ParameterValidator_get_questions_for_missing(missing_params, MAX_QUESTIONS)
          IN  /\ calls' = Append(calls, [op |-> "validate", site |-> "analyze",
                                         text |-> ORIGINAL, category |-> AnalyzeCategory,
                                         reply |-> reply, out |-> missing_params])
              /\ initial_critique' = Some(critique)
              /\ IF op = "analyze_prompt"
                    THEN /\ result' = Some(Analysis(category, confidence, critique, questions))
                         /\ pc' = (IF front_end = "bot" THEN "bot_save_session" ELSE "done")
                    ELSE /\ pc' = "refine_branch"
                         /\ UNCHANGED result
    /\ UNCHANGED <<argVars, tallyVars, category, confidence, loopVars, refineVars, db, error>>

(* ---------------- bot.py: analyze_prompt, app.py: api_analyze --------- *)

\* UserSession(user_id=user_id, current_prompt=prompt,
\* current_category=analysis['category'], context={"analysis": analysis})
UserSession(analysis) ==
    [user_id |-> USER, current_prompt |-> analysis.original_prompt,
     current_category |-> analysis.category, awaiting_response |-> None]

\* mutant: the document is never written
MongoDB_save_session_lost(doc, session, fails) == doc

\* MongoDB.save_session on the user's document: update_one with upsert, or
\* the failure of the store
MongoDB_save_session(doc, session, fails) ==
    IF fails THEN doc ELSE Some(session)

\* bot.analyze_prompt after the analysis: await db.save_session(session); an
\* exception is caught by the handler, which answers with the error text.
\* app.api_analyze has no such step.
BotSaveSession ==
    /\ pc = "bot_save_session"
    /\ \E fails \in BOOLEAN :
          /\ sessions' = MongoDB_save_session(sessions, UserSession(result[1]), fails)
          /\ calls' = Append(calls, [op |-> "save_session", site |-> "bot",
                                     text |-> ORIGINAL,
                                     session |-> UserSession(result[1]),
                                     fails |-> fails])
    /\ pc' = "done"
    /\ UNCHANGED <<argVars, category, confidence, initial_critique, loopVars,
                   refineVars, db, returned, save_failed, result, error>>

(* ------------------ agents/refiner.py: refine_iterative --------------- *)

\* mutant: the loop classifies the text again by its keywords
LoopCategory_reclassified == CategoryRouter_detect_with_keywords(prompt)[1]

\* the category parameter of refine_iterative, which it hands to every
\* critique and every rewrite
LoopCategory == category

\* mutant: one iteration too many
LoopContinues_inclusive(i, n) == i <= n

\* for iteration in range(max_iterations)
LoopContinues(i, n) == i < n

\* mutant: the 0-based loop variable is returned
TargetReturn_zero_based(history) ==
    [improved_prompt |-> current_prompt, iterations |-> iteration,
     critiques |-> history]

\* return current_prompt, iteration + 1, critiques_history
TargetReturn(history) ==
    [improved_prompt |-> current_prompt, iterations |-> iteration + 1,
     critiques |-> history]

\* mutant: the text before the last rewrite is returned
ExhaustedReturn_rollback ==
    [improved_prompt |-> (IF current_prompt > ORIGINAL THEN current_prompt - 1
                          ELSE current_prompt),
     iterations |-> max_iterations, critiques |-> critiques_history]

\* return current_prompt, max_iterations, critiques_history
ExhaustedReturn ==
    [improved_prompt |-> current_prompt, iterations |-> max_iterations,
     critiques |-> critiques_history]

\* mutant: every rewrite starts from the caller's prompt
RewriteInput_anchored == ORIGINAL

\* the text refine_iterative hands to self.refine as original_prompt
RewriteInput == current_prompt

\* refine_iterative returns ret: to its direct caller, or into refine_prompt
\* (improved_prompt, iterations_used, critiques = ...; final_critique =
\* critiques[-1] if critiques else initial_critique)
LoopReturn(ret) ==
    /\ loop_result' = Some(ret)
    /\ IF op = "refine_iterative"
          THEN /\ pc' = "done"
               /\ UNCHANGED refineVars
          ELSE /\ pc' = "explain"
               /\ improved_prompt' = ret.improved_prompt
               /\ iterations_used' = ret.iterations
               /\ final_critique' =
                     (IF ret.critiques # <<>> THEN Some(Last(ret.critiques))
                      ELSE initial_critique)
               /\ UNCHANGED explanation

LoopHead ==
    /\ pc = "loop_head"
    /\ IF LoopContinues(iteration, max_iterations)
          THEN /\ pc' = "loop_critique"
               /\ UNCHANGED <<loop_result, refineVars>>
          ELSE LoopReturn(ExhaustedReturn)
    /\ UNCHANGED <<argVars, tallyVars, category, confidence, initial_critique, target_score,
                   iteration, current_prompt, critiques_history, db, result,
                   error, calls>>

\* critique = await critic.critique(current_prompt, category), the append
\* and the stop test
LoopCritique ==
    /\ pc = "loop_critique"
    /\ \E reply \in CritiqueReplies :
          LET out == ShadowCritic_critique(reply)
          IN  /\ calls' = Append(calls, [op |-> "critique", site |-> "loop",
                                         text |-> current_prompt, category |-> LoopCategory,
                                         reply |-> reply, out |-> out])
              /\ IF out.raised
                    THEN /\ Raise(out.exc)
                         /\ UNCHANGED <<critiques_history, loop_result, refineVars>>
                    ELSE /\ critiques_history' = Append(critiques_history, out.value)
                         /\ UNCHANGED error
                         /\ IF TargetReached(out.value, target_score)
                               THEN LoopReturn(TargetReturn(critiques_history'))
                               ELSE /\ pc' = "loop_refine"
                                    /\ UNCHANGED <<loop_result, refineVars>>
    /\ UNCHANGED <<argVars, tallyVars, category, confidence, initial_critique, target_score,
                   iteration, current_prompt, db, result>>

\* current_prompt = await self.refine(original_prompt=current_prompt,
\* category=category, critique=critique)
LoopRefine ==
    /\ pc = "loop_refine"
    /\ \E reply \in TextReplies :
          LET out == PromptRefiner_refine(RewriteInput, reply, NewText)
          IN  /\ calls' = Append(calls, [op |-> "rewrite", site |-> "loop",
                                         text |-> RewriteInput, category |-> LoopCategory,
                                         critique |-> Last(critiques_history),
                                         user_answers |-> None,
                                         reply |-> reply, out |-> out])
              /\ IF out.raised
                    THEN /\ Raise(out.exc)
                         /\ UNCHANGED <<current_prompt, iteration>>
                    ELSE /\ current_prompt' = out.value
                         /\ iteration' = iteration + 1
                         /\ pc' = "loop_head"
                         /\ UNCHANGED error
    /\ UNCHANGED <<argVars, tallyVars, category, confidence, initial_critique, target_score,
                   critiques_history, loop_result, refineVars, db, result>>

(* ------------------ core/orchestrator.py: refine_prompt --------------- *)

\* score_before = initial_critique.overall_score
score_before == initial_critique[1].overall_score

\* score_after = final_critique.overall_score
score_after == final_critique[1].overall_score

\* mutant: the loop is taken for one permitted round as well
UsesLoop_inclusive == use_iterations /\ max_iterations >= 1

\* if use_iterations and max_iterations > 1
UsesLoop == use_iterations /\ max_iterations > 1

\* the branch after the analysis; the loop is called with the caller's
\* prompt, the category and target_score=8
RefineBranch ==
    /\ pc = "refine_branch"
    /\ IF UsesLoop
          THEN /\ pc' = "loop_head"
               /\ target_score' = TARGET_SCORE
               /\ iteration' = 0
               /\ current_prompt' = ORIGINAL
               /\ critiques_history' = <<>>
          ELSE /\ pc' = "single_refine"
               /\ UNCHANGED <<target_score, iteration, current_prompt, critiques_history>>
    /\ UNCHANGED <<argVars, tallyVars, category, confidence, initial_critique, loop_result,
                   refineVars, db, result, error, calls>>

\* improved_prompt = await self.refiner.refine(prompt, category,
\* initial_critique, user_answers); iterations_used = 1
SingleRefine ==
    /\ pc = "single_refine"
    /\ \E reply \in TextReplies :
          LET out == PromptRefiner_refine(ORIGINAL, reply, NewText)
          IN  /\ calls' = Append(calls, [op |-> "rewrite", site |-> "single",
                                         text |-> ORIGINAL, category |-> category,
                                         critique |-> initial_critique[1],
                                         user_answers |-> USER_ANSWERS,
                                         reply |-> reply, out |-> out])
              /\ IF out.raised
                    THEN /\ Raise(out.exc)
                         /\ UNCHANGED <<improved_prompt, iterations_used>>
                    ELSE /\ improved_prompt' = out.value
                         /\ iterations_used' = 1
                         /\ pc' = "single_critique"
                         /\ UNCHANGED error
    /\ UNCHANGED <<argVars, tallyVars, category, confidence, initial_critique, loopVars,
                   final_critique, explanation, db, result>>

\* final_critique = await self.shadow_critic.critique(improved_prompt, category)
SingleCritique ==
    /\ pc = "single_critique"
    /\ \E reply \in CritiqueReplies :
          LET out == ShadowCritic_critique(reply)
          IN  /\ calls' = Append(calls, [op |-> "critique", site |-> "single",
                                         text |-> improved_prompt, category |-> category,
                                         reply |-> reply, out |-> out])
              /\ IF out.raised
                    THEN Raise(out.exc) /\ UNCHANGED final_critique
                    ELSE /\ final_critique' = Some(out.value)
                         /\ pc' = "explain"
                         /\ UNCHANGED error
    /\ UNCHANGED <<argVars, tallyVars, category, confidence, initial_critique, loopVars,
                   improved_prompt, iterations_used, explanation, db, result>>

\* explanation = await self.refiner.generate_explanation(prompt,
\* improved_prompt, initial_critique.weaknesses)
Explain ==
    /\ pc = "explain"
    /\ \E reply \in TextReplies :
          /\ explanation' = PromptRefiner_generate_explanation(reply)
          /\ calls' = Append(calls, [op |-> "explain", site |-> "refine",
                                     text |-> improved_prompt,
                                     weaknesses |-> initial_critique[1].weaknesses,
                                     reply |-> reply])
    /\ pc' = "save"
    /\ UNCHANGED <<argVars, tallyVars, category, confidence, initial_critique, loopVars,
                   improved_prompt, iterations_used, final_critique, db, result, error>>

\* the PromptHistory built in _save_to_db
PromptHistory ==
    [original_prompt |-> ORIGINAL, improved_prompt |-> improved_prompt,
     category |-> category,
     weaknesses |-> initial_critique[1].weaknesses,
     score_before |-> score_before, score_after |-> score_after,
     iterations |-> iterations_used]

\* mutant: the insert replaces what the collection holds
Orchestrator_save_to_db_overwrite(store, history, fails) ==
    IF fails THEN store ELSE <<history>>

\* _save_to_db: the insert, or the exception caught and logged
Orchestrator_save_to_db(store, history, fails) ==
    IF fails THEN store ELSE Append(store, history)

\* mutant: a regression is reported as no change
ImprovementDelta_clamped(after, before) ==
    IF after > before THEN after - before ELSE 0

\* improvement_delta=score_after - score_before
ImprovementDelta(after, before) == after - before

RefinementResult ==
    [original_prompt |-> ORIGINAL, improved_prompt |-> improved_prompt,
     category |-> category, critique |-> final_critique[1],
     iterations_used |-> iterations_used, explanation |-> explanation,
     improvement_delta |-> ImprovementDelta(score_after, score_before)]

\* await self._save_to_db(...); return RefinementResult(...)
SaveToDb ==
    /\ pc = "save"
    /\ \E fails \in BOOLEAN :
          /\ db' = Orchestrator_save_to_db(db, PromptHistory, fails)
          /\ calls' = Append(calls, [op |-> "save", site |-> "refine",
                                     text |-> improved_prompt,
                                     history |-> PromptHistory, fails |-> fails])
          /\ save_failed' = save_failed + (IF fails THEN 1 ELSE 0)
    /\ result' = Some(RefinementResult)
    /\ returned' = returned + 1
    /\ pc' = "done"
    /\ UNCHANGED <<argVars, sessions, category, confidence, initial_critique,
                   loopVars, refineVars, error>>

(* --------------------------- specification ---------------------------- *)

Next ==
    \/ Classify
    \/ AnalyzeCritique
    \/ AnalyzeValidate
    \/ BotSaveSession
    \/ RefineBranch
    \/ LoopHead
    \/ LoopCritique
    \/ LoopRefine
    \/ SingleRefine
    \/ SingleCritique
    \/ Explain
    \/ SaveToDb

Spec == Init /\ [][Next]_vars

\* An await resumes once its reply or its failure arrives: the service
\* answers or errors, and the event loop then runs the continuation.
FairSpec == Spec /\ WF_vars(Next)

(* ------------------- the components taken on their own ---------------- *)

\* the orchestration core is not running: the state of its variables in the
\* specifications of the single components
PipelineIdle(opname) ==
    /\ op = opname
    /\ prompt = {}
    /\ max_iterations_arg = None
    /\ use_iterations = FALSE
    /\ front_end = "none"
    /\ call_no = 1
    /\ category = "unset"
    /\ confidence = 0
    /\ initial_critique = None
    /\ target_score = 0
    /\ iteration = 0
    /\ current_prompt = ORIGINAL
    /\ critiques_history = <<>>
    /\ loop_result = None
    /\ improved_prompt = ORIGINAL
    /\ iterations_used = 0
    /\ final_critique = None
    /\ explanation = ""
    /\ returned = 0
    /\ save_failed = 0
    /\ error = None
    /\ calls = <<>>

pipelineVars == <<op, prompt, max_iterations_arg, use_iterations, front_end, call_no,
                  category, confidence, initial_critique, loopVars, refineVars,
                  returned, save_failed, error, calls>>

\* the sequences over S of length at most n
SeqsUpTo(S, n) == UNION {[1 .. m -> S] : m \in 0 .. n}

(* ------- agents/parameter_validator.py: get_questions_for_missing ----- *)

\* the parameters the lists are made of: two required, two recommended, and
\* one whose importance is neither (importance is any str)
Params ==
    {[name |-> "language", question |-> "q_language", importance |-> "required"],
     [name |-> "context", question |-> "q_context", importance |-> "required"],
     [name |-> "audience", question |-> "q_audience", importance |-> "recommended"],
     [name |-> "tone", question |-> "q_tone", importance |-> "recommended"],
     [name |-> "format", question |-> "q_format", importance |-> "optional"]}

QuestionsInit ==
    /\ PipelineIdle("get_questions_for_missing")
    /\ pc = "call"
    /\ db = <<>>
    /\ sessions = None
    /\ result = None
    /\ missing_params_in \in SeqsUpTo(Params, MaxParams)
    /\ max_questions_in \in 0 .. MaxQuestions
    /\ QueryIdle /\ HandlersIdle /\ ProcessIdle

\* questions = get_questions_for_missing(missing_params, max_questions)
GetQuestions ==
    /\ pc = "call"
    /\ op = "get_questions_for_missing"
    /\ result' = Some(ParameterValidator_get_questions_for_missing(
                          missing_params_in, max_questions_in))
    /\ pc' = "done"
    /\ UNCHANGED <<pipelineVars, compVars, db, sessions>>

QuestionsNext == GetQuestions

QuestionsSpec == QuestionsInit /\ [][QuestionsNext]_vars

(* ------------- database/mongodb.py: get_top_improvements -------------- *)

\* the records the queried collection is made of, by category and scores:
\* improvements of 5, 3, 3, 1, -5 in one category and of 6 in another
HistoryValues ==
    {[category |-> "code", score_before |-> 4, score_after |-> 9],
     [category |-> "code", score_before |-> 4, score_after |-> 7],
     [category |-> "code", score_before |-> 6, score_after |-> 9],
     [category |-> "code", score_before |-> 5, score_after |-> 6],
     [category |-> "code", score_before |-> 9, score_after |-> 4],
     [category |-> "creative", score_before |-> 3, score_after |-> 9]}

\* the document insert_one stored for a record: the dump of a PromptHistory
\* with its identifier
StoredDoc(id, v) ==
    [id |-> id, original_prompt |-> ORIGINAL, improved_prompt |-> 1,
     category |-> v.category, weaknesses |-> <<>>,
     score_before |-> v.score_before, score_after |-> v.score_after,
     iterations |-> 1]

\* the collections that are queried: the i-th document inserted has id i
Collections ==
    {[i \in DOMAIN vs |-> StoredDoc(i, vs[i])] : vs \in SeqsUpTo(HistoryValues, MaxDocs)}

\* the arguments of get_top_improvements
Queries ==
    [category : {None, Some("code")}, min_improvement : {1, 3}, limit : 1 .. MaxLimit]

\* {"$match": query}: query is {} unless a category is given
MatchCategory(q, d) == q.category = None \/ d.category = q.category[1]

\* {"$addFields": {"improvement": {"$subtract": ["$score_after", "$score_before"]}}}
AddImprovement(d) ==
    [id |-> d.id, original_prompt |-> d.original_prompt,
     improved_prompt |-> d.improved_prompt, category |-> d.category,
     weaknesses |-> d.weaknesses, score_before |-> d.score_before,
     score_after |-> d.score_after, iterations |-> d.iterations,
     improvement |-> d.score_after - d.score_before]

\* {"$match": {"improvement": {"$gte": min_improvement}}}
MatchImprovement(q, d) == d.improvement >= q.min_improvement

\* {"$sort": {"improvement": -1, "score_after": -1}}: a before b is allowed
SortedPair(a, b) ==
    \/ a.improvement > b.improvement
    \/ a.improvement = b.improvement /\ a.score_after >= b.score_after

\* the orders $sort can produce of a set of documents: the order of
\* documents that tie on both keys is not determined
SortOutcomes(docs) ==
    LET n == Cardinality(docs)
    IN  {f \in [1 .. n -> docs] :
            /\ \A i, j \in 1 .. n : i # j => f[i].id # f[j].id
            /\ \A i, j \in 1 .. n : i < j => SortedPair(f[i], f[j])}

\* {"$project": {...}}: the fields kept (with the identifier)
Project(d) ==
    [id |-> d.id, original_prompt |-> d.original_prompt,
     improved_prompt |-> d.improved_prompt, category |-> d.category,
     score_before |-> d.score_before, score_after |-> d.score_after,
     improvement |-> d.improvement]

\* the documents that pass both $match stages, with their improvement
Matched2(store, q) ==
    {AddImprovement(store[i]) : i \in {j \in DOMAIN store : MatchCategory(q, store[j])}}

Qualifying(store, q) == {d \in Matched2(store, q) : MatchImprovement(q, d)}

\* mutant: $limit is applied before $sort, to the documents in stored order
MongoDB_get_top_improvements_limit_first(store, q) ==
    LET ids == {d.id : d \in Qualifying(store, q)}
        kept == {d \in Qualifying(store, q) :
                    Cardinality({i \in ids : i < d.id}) < q.limit}
    IN  {[i \in DOMAIN f |-> Project(f[i])] : f \in SortOutcomes(kept)}

\* MongoDB.get_top_improvements: the lists the aggregation can return
MongoDB_get_top_improvements(store, q) ==
    {[i \in DOMAIN Take(f, q.limit) |-> Project(f[i])] :
        f \in SortOutcomes(Qualifying(store, q))}

StoreInit ==
    /\ PipelineIdle("get_top_improvements")
    /\ pc = "call"
    /\ db \in Collections
    /\ sessions = None
    /\ result = None
    /\ query \in {Some(q) : q \in Queries}
    /\ QuestionsIdle /\ HandlersIdle /\ ProcessIdle

\* results = [doc async for doc in prompts_collection.aggregate(pipeline)]
GetTopImprovements ==
    /\ pc = "call"
    /\ op = "get_top_improvements"
    /\ \E results \in MongoDB_get_top_improvements(db, query[1]) :
          result' = Some(results)
    /\ pc' = "done"
    /\ UNCHANGED <<pipelineVars, compVars, db, sessions>>

StoreNext == GetTopImprovements

StoreSpec == StoreInit /\ [][StoreNext]_vars

(* ------------- bot.py: the handlers and the sessions collection ------- *)

\* the users who write to the bot
Users == {"u", "v"}

\* the handlers: /improve without text, and a text message
HandlerKinds == {"improve_command", "handle_message"}

\* UserSession(user_id=..., awaiting_response="improve").model_dump()
PendingImprove(user) ==
    [user_id |-> user, current_prompt |-> None, current_category |-> None,
     awaiting_response |-> Some("improve")]

\* UserSession(user_id=user_id, current_prompt=prompt,
\* current_category=analysis['category'], ...).model_dump(): the text of the
\* message handler h handles is h
AnalysisSnapshot(user, h) ==
    [user_id |-> user, current_prompt |-> Some(h), current_category |-> Some("code"),
     awaiting_response |-> None]

\* the positions of the user's documents in the collection
DocsOf(coll, user) == {i \in DOMAIN coll : coll[i].user_id = user}

\* the first of the user's documents
FirstOf(coll, user) ==
    CHOOSE i \in DocsOf(coll, user) : \A j \in DocsOf(coll, user) : i <= j

\* MongoDB.get_session: find_one({"user_id": user_id})
MongoDB_get_session(coll, user) ==
    IF DocsOf(coll, user) = {} THEN None ELSE Some(coll[FirstOf(coll, user)])

\* update_one({"user_id": ...}, {"$set": doc}) on a collection that holds a
\* document of the user: every field of the dump is set on the first match
MongoDB_update_one(coll, doc) ==
    [coll EXCEPT ![FirstOf(coll, doc.user_id)] = doc]

\* the insert of an upsert that found no document
MongoDB_insert_one(coll, doc) == Append(coll, doc)

\* mutant: the document is left in the collection
MongoDB_clear_session_kept(coll, user) == coll

\* MongoDB.clear_session: delete_one({"user_id": user_id})
MongoDB_clear_session(coll, user) ==
    IF DocsOf(coll, user) = {} THEN coll
    ELSE LET k == FirstOf(coll, user)
         IN  SubSeq(coll, 1, k - 1) \o SubSeq(coll, k + 1, Len(coll))

NewHandler(kind, user) ==
    [kind |-> kind, user |-> user, pc |-> "new", session |-> None,
     cleared |-> FALSE, processed |-> "none"]

NoWrite == [kind |-> "none", state |-> None]

HandlerInit ==
    /\ PipelineIdle("handlers")
    /\ pc = "idle"
    /\ db = <<>>
    /\ result = None
    /\ sessions = <<>>
    /\ handlers \in [1 .. MaxHandlers -> {NewHandler(k, u) : k \in HandlerKinds, u \in Users}]
    /\ last_write = [u \in Users |-> NoWrite]
    /\ improve_saved = [u \in Users |-> 0]
    /\ serial = TRUE
    /\ QuestionsIdle /\ QueryIdle /\ ProcessIdle

\* the session the handler saves
SessionOf(h) ==
    IF handlers[h].kind = "improve_command" THEN PendingImprove(handlers[h].user)
    ELSE AnalysisSnapshot(handlers[h].user, h)

\* the store has applied the write of a session
Applied(doc) ==
    /\ last_write' = [last_write EXCEPT ![doc.user_id] = [kind |-> "save", state |-> Some(doc)]]
    /\ improve_saved' =
          [improve_saved EXCEPT ![doc.user_id] =
              @ + (IF doc.awaiting_response = Some("improve") THEN 1 ELSE 0)]

\* handler h starts: no other handler is between its first and its last step
Starts(h) ==
    serial' = (serial /\ \A g \in DOMAIN handlers :
                            g # h => handlers[g].pc \in {"new", "done"})

\* await db.save_session(session): update_one with upsert=True. A document
\* of the user is updated in one step; when there is none the server
\* inserts one, and with no unique index on user_id nothing orders that
\* insert with the upserts of other handlers.
SaveSession(h) ==
    LET doc == SessionOf(h)
    IN  IF DocsOf(sessions, doc.user_id) # {}
           THEN /\ sessions' = MongoDB_update_one(sessions, doc)
                /\ Applied(doc)
                /\ handlers' = [handlers EXCEPT ![h].pc = "done"]
           ELSE /\ handlers' = [handlers EXCEPT ![h].pc = "save_insert"]
                /\ UNCHANGED <<sessions, last_write, improve_saved>>

\* improve_command without text: saves the pending improve request
ImproveCommand(h) ==
    /\ handlers[h].kind = "improve_command"
    /\ handlers[h].pc = "new"
    /\ SaveSession(h)
    /\ Starts(h)
    /\ UNCHANGED <<pipelineVars, pc, db, result, questionVars, query, processVars>>

\* the insert of the upsert
SaveInsert(h) ==
    /\ handlers[h].pc = "save_insert"
    /\ sessions' = MongoDB_insert_one(sessions, SessionOf(h))
    /\ Applied(SessionOf(h))
    /\ handlers' = [handlers EXCEPT ![h].pc = "done"]
    /\ UNCHANGED <<pipelineVars, pc, db, result, questionVars, query, serial, processVars>>

\* handle_message: session = await db.get_session(user_id) and the branch
GetSession(h) ==
    /\ handlers[h].kind = "handle_message"
    /\ handlers[h].pc = "new"
    /\ LET session == MongoDB_get_session(sessions, handlers[h].user)
       IN  handlers' =
              [handlers EXCEPT
                  ![h].session = session,
                  ![h].pc = IF session # None /\ session[1].awaiting_response = Some("improve")
                               THEN "clear" ELSE "analyze"]
    /\ Starts(h)
    /\ UNCHANGED <<pipelineVars, pc, db, result, sessions, last_write, improve_saved,
                   questionVars, query, processVars>>

\* await db.clear_session(user_id)
ClearSession(h) ==
    /\ handlers[h].pc = "clear"
    /\ sessions' = MongoDB_clear_session(sessions, handlers[h].user)
    /\ last_write' = [last_write EXCEPT ![handlers[h].user] = [kind |-> "clear", state |-> None]]
    /\ handlers' = [handlers EXCEPT ![h].cleared = TRUE, ![h].pc = "refine"]
    /\ UNCHANGED <<pipelineVars, pc, db, result, improve_saved, serial,
                   questionVars, query, processVars>>

\* await improve_prompt(update, context, text): the refinement and its reply
\* (or the error message)
ImprovePrompt(h) ==
    /\ handlers[h].pc = "refine"
    /\ handlers' = [handlers EXCEPT ![h].processed = "refine", ![h].pc = "done"]
    /\ UNCHANGED <<pipelineVars, pc, db, result, sessions, last_write, improve_saved,
                   serial, questionVars, query, processVars>>

\* await analyze_prompt(update, context, text): the analysis, which returns
\* or raises; the snapshot is saved only when it returned
AnalyzePrompt(h) ==
    /\ handlers[h].pc = "analyze"
    /\ \E ok \in BOOLEAN :
          handlers' = [handlers EXCEPT ![h].processed = "analyze",
                                       ![h].pc = IF ok THEN "save" ELSE "done"]
    /\ UNCHANGED <<pipelineVars, pc, db, result, sessions, last_write, improve_saved,
                   serial, questionVars, query, processVars>>

\* bot.analyze_prompt: await db.save_session(session)
SaveSnapshot(h) ==
    /\ handlers[h].pc = "save"
    /\ SaveSession(h)
    /\ UNCHANGED <<pipelineVars, pc, db, result, serial, questionVars, query, processVars>>

\* the event loop runs the handlers and switches between them at the awaits
HandlerNext ==
    \/ \E h \in DOMAIN handlers : ImproveCommand(h)
    \/ \E h \in DOMAIN handlers : SaveInsert(h)
    \/ \E h \in DOMAIN handlers : GetSession(h)
    \/ \E h \in DOMAIN handlers : ClearSession(h)
    \/ \E h \in DOMAIN handlers : ImprovePrompt(h)
    \/ \E h \in DOMAIN handlers : AnalyzePrompt(h)
    \/ \E h \in DOMAIN handlers : SaveSnapshot(h)

HandlerSpec == HandlerInit /\ [][HandlerNext]_vars

(* ------ app.py: the request threads, the event loop and the bot ------- *)

\* the requests: POST /webhook and GET /api/stats
RequestKinds == {"webhook", "api_stats"}

\* a request thread before its first step: the webhook starts with
\* run_async, api_stats with MongoDB()
NewThread(kind) ==
    [kind |-> kind, pc |-> (IF kind = "webhook" THEN "get_loop" ELSE "mongo"),
     loop |-> None, client |-> None, initialized_before |-> FALSE]

ProcessInit ==
    /\ PipelineIdle("process")
    /\ pc = "import"
    /\ db = <<>>
    /\ sessions = None
    /\ result = None
    /\ MongoDB_client = None
    /\ clients_created = 0
    /\ loop = None
    /\ loops_created = 0
    /\ bot_app = FALSE
    /\ bot_initialized = FALSE
    /\ initialize_calls = 0
    /\ threads \in [1 .. MaxRequests -> {NewThread(k) : k \in RequestKinds}]
    /\ QuestionsIdle /\ QueryIdle /\ HandlersIdle

\* MongoDB.__init__ run without interruption: the client is constructed
\* when the class holds none
MongoDB_init(st) ==
    IF st.client = None
       THEN [client |-> Some(st.created + 1), created |-> st.created + 1]
       ELSE st

\* mutant: the orchestrator is constructed without its MongoDB()
PromptEnhancerOrchestrator_init_no_db(st) == st

\* PromptEnhancerOrchestrator.__init__: self.db = MongoDB()
PromptEnhancerOrchestrator_init(st) == MongoDB_init(st)

\* the import of core.orchestrator by app.py and bot.py, which runs
\* orchestrator = PromptEnhancerOrchestrator() before a request is served
Import ==
    /\ op = "process"
    /\ pc = "import"
    /\ LET st == PromptEnhancerOrchestrator_init(
                     [client |-> MongoDB_client, created |-> clients_created])
       IN  /\ MongoDB_client' = st.client
           /\ clients_created' = st.created
    /\ pc' = "serving"
    /\ UNCHANGED <<pipelineVars, db, sessions, result, questionVars, query, handlerVars,
                   loop, loops_created, bot_app, bot_initialized, initialize_calls,
                   threads>>

\* the step of thread t after its MongoDB() is constructed
AfterMongo(t) == IF threads[t].kind = "webhook" THEN "use_db" ELSE "get_loop"

\* db = MongoDB() in a request thread or in a handler: the test
\* "MongoDB._client is None" and, in a later step of the thread, the
\* construction and the assignment
MongoDBInit(t) ==
    /\ pc = "serving"
    /\ threads[t].pc \in {"mongo", "mongo_create"}
    /\ IF threads[t].pc = "mongo"
          THEN /\ threads' = [threads EXCEPT ![t].pc =
                                 IF MongoDB_client = None THEN "mongo_create"
                                 ELSE AfterMongo(t)]
               /\ UNCHANGED <<MongoDB_client, clients_created>>
          ELSE /\ clients_created' = clients_created + 1
               /\ MongoDB_client' = Some(clients_created + 1)
               /\ threads' = [threads EXCEPT ![t].pc = AfterMongo(t)]
    /\ UNCHANGED <<pipelineVars, pc, db, sessions, result, questionVars, query,
                   handlerVars, loop, loops_created, bot_app, bot_initialized,
                   initialize_calls>>

\* the step of thread t once it holds the event loop
AfterLoop(t) == IF threads[t].kind = "webhook" THEN "initialize_bot" ELSE "use_db"

\* get_event_loop: if _loop is None or _loop.is_closed()
GetLoopCheck(t) ==
    /\ pc = "serving"
    /\ threads[t].pc = "get_loop"
    /\ threads' = [threads EXCEPT
                      ![t].pc = IF loop = None THEN "loop_create" ELSE AfterLoop(t),
                      ![t].loop = loop]
    /\ UNCHANGED <<pipelineVars, pc, db, sessions, result, questionVars, query,
                   handlerVars, MongoDB_client, clients_created, loop, loops_created,
                   bot_app, bot_initialized, initialize_calls>>

\* get_event_loop: _loop = asyncio.new_event_loop(), its thread, return _loop
GetLoopCreate(t) ==
    /\ pc = "serving"
    /\ threads[t].pc = "loop_create"
    /\ loops_created' = loops_created + 1
    /\ loop' = Some(loops_created + 1)
    /\ threads' = [threads EXCEPT ![t].pc = AfterLoop(t),
                                  ![t].loop = Some(loops_created + 1)]
    /\ UNCHANGED <<pipelineVars, pc, db, sessions, result, questionVars, query,
                   handlerVars, MongoDB_client, clients_created, bot_app,
                   bot_initialized, initialize_calls>>

\* initialize_bot up to its await: bot_app is created when it is None, and
\* bot_app.initialize() is called when bot_initialized is false
InitializeBot(t) ==
    /\ pc = "serving"
    /\ threads[t].pc = "initialize_bot"
    /\ bot_app' = TRUE
    /\ IF ~bot_initialized
          THEN /\ initialize_calls' = initialize_calls + 1
               /\ threads' = [threads EXCEPT ![t].pc = "initializing"]
          ELSE /\ threads' = [threads EXCEPT ![t].pc = "process_update"]
               /\ UNCHANGED initialize_calls
    /\ UNCHANGED <<pipelineVars, pc, db, sessions, result, questionVars, query,
                   handlerVars, MongoDB_client, clients_created, loop, loops_created,
                   bot_initialized>>

\* await bot_app.initialize() returns and bot_initialized = True, or it
\* raises and the webhook answers with the error
InitializeDone(t) ==
    /\ pc = "serving"
    /\ threads[t].pc = "initializing"
    /\ \E ok \in BOOLEAN :
          IF ok THEN /\ bot_initialized' = TRUE
                     /\ threads' = [threads EXCEPT ![t].pc = "process_update"]
                ELSE /\ threads' = [threads EXCEPT ![t].pc = "done"]
                     /\ UNCHANGED bot_initialized
    /\ UNCHANGED <<pipelineVars, pc, db, sessions, result, questionVars, query,
                   handlerVars, MongoDB_client, clients_created, loop, loops_created,
                   bot_app, initialize_calls>>

\* await bot.process_update(update): the handler starts, and constructs its
\* MongoDB()
ProcessUpdate(t) ==
    /\ pc = "serving"
    /\ threads[t].pc = "process_update"
    /\ threads' = [threads EXCEPT ![t].pc = "mongo",
                                  ![t].initialized_before = bot_initialized]
    /\ UNCHANGED <<pipelineVars, pc, db, sessions, result, questionVars, query,
                   handlerVars, processVarsButThreads>>

\* the instance is used: its db property reads MongoDB._db
UseDb(t) ==
    /\ pc = "serving"
    /\ threads[t].pc = "use_db"
    /\ threads' = [threads EXCEPT ![t].pc = "done", ![t].client = MongoDB_client]
    /\ UNCHANGED <<pipelineVars, pc, db, sessions, result, questionVars, query,
                   handlerVars, processVarsButThreads>>

\* the interpreter switches between the request threads, and the event
\* loop between the coroutines at their awaits
ProcessNext ==
    \/ Import
    \/ \E t \in DOMAIN threads : MongoDBInit(t)
    \/ \E t \in DOMAIN threads : GetLoopCheck(t)
    \/ \E t \in DOMAIN threads : GetLoopCreate(t)
    \/ \E t \in DOMAIN threads : InitializeBot(t)
    \/ \E t \in DOMAIN threads : InitializeDone(t)
    \/ \E t \in DOMAIN threads : ProcessUpdate(t)
    \/ \E t \in DOMAIN threads : UseDb(t)

ProcessSpec == ProcessInit /\ [][ProcessNext]_vars

(* --------------------- calls one after the other ---------------------- *)

\* The calls a session makes, of one text: the analysis and the refinement
\* with use_iterations=False. Both branches of refine_prompt join before the
\* explanation and the save, so the session takes the shorter one.
SessionCalls ==
    {[op |-> "analyze_prompt", max_iterations_arg |-> None, use_iterations |-> TRUE],
     [op |-> "refine_prompt", max_iterations_arg |-> None, use_iterations |-> FALSE]}

SessionPrompt == {"ktov", "funktsia"}

SessionInit ==
    /\ Init
    /\ prompt = SessionPrompt
    /\ front_end = "none"
    /\ \E c \in SessionCalls :
          /\ op = c.op
          /\ max_iterations_arg = c.max_iterations_arg
          /\ use_iterations = c.use_iterations

\* The operation has returned or raised and the process serves its next
\* call: the locals are new, the collections are the same.
NewCall ==
    /\ pc \in {"done", "raised"}
    /\ call_no < MaxCalls
    /\ call_no' = call_no + 1
    /\ \E c \in SessionCalls :
          /\ op' = c.op
          /\ max_iterations_arg' = c.max_iterations_arg
          /\ use_iterations' = c.use_iterations
    /\ pc' = "classify"
    /\ category' = "unset"
    /\ confidence' = 0
    /\ initial_critique' = None
    /\ target_score' = 0
    /\ iteration' = 0
    /\ current_prompt' = ORIGINAL
    /\ critiques_history' = <<>>
    /\ loop_result' = None
    /\ improved_prompt' = ORIGINAL
    /\ iterations_used' = 0
    /\ final_critique' = None
    /\ explanation' = ""
    /\ result' = None
    /\ error' = None
    /\ calls' = <<>>
    /\ UNCHANGED <<prompt, front_end, db, sessions, returned, save_failed, compVars>>

\* the steps of analyze_prompt and of the single-shot refine_prompt (the
\* calls are made on the orchestrator itself), and the next call
SessionNext ==
    \/ Classify
    \/ AnalyzeCritique
    \/ AnalyzeValidate
    \/ RefineBranch
    \/ SingleRefine
    \/ SingleCritique
    \/ Explain
    \/ SaveToDb
    \/ NewCall

SessionSpec == SessionInit /\ [][SessionNext]_vars

(* ----------------------- detect_category alone ------------------------ *)

RouterInit ==
    /\ ComponentsIdle
    /\ op = "detect_category"
    /\ prompt \in RouterPrompts
    /\ max_iterations_arg = None
    /\ use_iterations = FALSE
    /\ front_end = "none"
    /\ call_no = 1
    /\ pc = "detect"
    /\ category = "unset"
    /\ confidence = 0
    /\ initial_critique = None
    /\ target_score = 0
    /\ iteration = 0
    /\ current_prompt = ORIGINAL
    /\ critiques_history = <<>>
    /\ loop_result = None
    /\ improved_prompt = ORIGINAL
    /\ iterations_used = 0
    /\ final_critique = None
    /\ explanation = ""
    /\ db = <<>>
    /\ sessions = None
    /\ returned = 0
    /\ save_failed = 0
    /\ result = None
    /\ error = None
    /\ calls = <<>>

\* one call of CategoryRouter.detect_category on the text; the router keeps
\* no state, and the same text is classified up to MaxDetects times
DetectCategory ==
    /\ pc = "detect"
    /\ Len(calls) < MaxDetects
    /\ \E reply \in RouterReplies :
          LET r == CategoryRouter_detect_category(reply, prompt)
          IN  /\ category' = r[1]
              /\ confidence' = r[2]
              /\ result' = Some(r)
              /\ calls' = Append(calls, [op |-> "classify", site |-> "router",
                                         text |-> ORIGINAL, reply |-> reply,
                                         out |-> r])
    /\ UNCHANGED <<argVars, tallyVars, pc, initial_critique, loopVars, refineVars,
                   db, error>>

RouterNext == DetectCategory

RouterSpec == RouterInit /\ [][RouterNext]_vars

(* ------------------------------ claims -------------------------------- *)

LoopRunning == pc \in {"loop_head", "loop_critique", "loop_refine"}

\* refine_iterative has returned, or an exception has left it
LoopFinished ==
    \/ loop_result # None
    \/ pc = "raised" /\ calls # <<>> /\ Last(calls).site = "loop"

\* C1: once the critique of iteration i reaches the target score or is
\* flagged ready, refine_iterative has returned (text just critiqued, i, the
\* i critiques), and the run holds no critique and no rewrite call after it:
\* i critiques and i - 1 rewrites by the loop, none elsewhere but the
\* initial critique of refine_prompt.
C1_ConvergedReturnsAtOnce ==
    \A i \in DOMAIN critiques_history :
        (critiques_history[i].overall_score >= target_score \/ critiques_history[i].is_ready)
        => /\ i = Len(critiques_history)
           /\ Len(LoopCritiques) = i
           /\ LoopCritiques[i].out = Returned(critiques_history[i])
           /\ Count("critique") = i + (IF op = "refine_prompt" THEN 1 ELSE 0)
           /\ Count("rewrite") = i - 1
           /\ ~LoopRunning
           /\ loop_result = Some([improved_prompt |-> LoopCritiques[i].text,
                                   iterations |-> i,
                                   critiques |-> critiques_history])

\* C1 witness: the loop stopped on its second critique, flagged ready with a
\* score below the target.
C1_Witness ==
    /\ loop_result # None
    /\ Len(critiques_history) = 2
    /\ critiques_history[2].is_ready
    /\ critiques_history[2].overall_score < target_score

\* the loop's calls alternate critique, rewrite, critique, ...
Alternating ==
    \A k \in DOMAIN LoopCalls :
        LoopCalls[k].op = (IF k % 2 = 1 THEN "critique" ELSE "rewrite")

\* no critique and no rewrite of the loop is numbered above max_iterations
\* (none is made at all when max_iterations <= 0), and the calls alternate
WithinBudget ==
    /\ \A k \in DOMAIN LoopCritiques : k <= max_iterations
    /\ \A k \in DOMAIN LoopRewrites : k <= max_iterations
    /\ Alternating

\* C2: the loop always terminates (returns or raises), whatever the replies,
\* and it makes at most max_iterations critique calls and at most
\* max_iterations rewrite calls, alternating critique, rewrite, ... from a
\* critique.
C2_TerminatesWithinBudget ==
    /\ []WithinBudget
    /\ (LoopRunning ~> LoopFinished)

\* C2 witness: a finished loop that used its whole budget of three.
C2_Witness ==
    /\ LoopFinished
    /\ max_iterations = 3
    /\ Len(LoopCritiques) = 3
    /\ Len(LoopRewrites) = 3

IterationsInRange ==
    /\ loop_result # None =>
          1 <= loop_result[1].iterations /\ loop_result[1].iterations <= max_iterations
    /\ (op = "refine_prompt" /\ result # None) =>
          1 <= result[1].iterations_used /\ result[1].iterations_used <= max_iterations

\* C3 as stated: every returned iterations_used is in 1..max_iterations,
\* whatever max_iterations is.
C3_Original == IterationsInRange

\* C3 amended: when max_iterations >= 1, every result of the loop and every
\* RefinementResult has 1 <= iterations_used <= max_iterations; when
\* max_iterations <= 0 the loop returns max_iterations and refine_prompt 1.
C3_IterationsInRange ==
    IF max_iterations >= 1 THEN IterationsInRange
    ELSE /\ loop_result # None => loop_result[1].iterations = max_iterations
         /\ (op = "refine_prompt" /\ result # None) => result[1].iterations_used = 1

\* C3 witness: refine_prompt returned after the loop stopped on its second
\* of three iterations.
C3_Witness ==
    /\ op = "refine_prompt"
    /\ result # None
    /\ loop_result # None
    /\ max_iterations = 3
    /\ result[1].iterations_used = 2

\* the loop made critiques, and each was below the target and not ready
AllBelowTarget(history) ==
    /\ history # <<>>
    /\ \A i \in DOMAIN history :
          history[i].overall_score < target_score /\ ~history[i].is_ready

\* C4: a loop that returns after critiques that were all below the target
\* and not ready has made exactly max_iterations critique calls, returns
\* max_iterations and those max_iterations critiques, and returns the output
\* of its last rewrite, the newest text of the run, whatever the scores of
\* the earlier texts.
C4_Exhaustion ==
    (loop_result # None /\ AllBelowTarget(loop_result[1].critiques)) =>
        /\ Len(LoopCritiques) = max_iterations
        /\ loop_result[1].iterations = max_iterations
        /\ Len(loop_result[1].critiques) = max_iterations
        /\ loop_result[1].critiques = critiques_history
        /\ Len(LoopRewrites) = max_iterations
        /\ loop_result[1].improved_prompt = Last(LoopRewrites).out.value
        /\ loop_result[1].improved_prompt = max_iterations

\* C4 witness: three iterations below target, the first scoring higher than
\* the last.
C4_Witness ==
    /\ loop_result # None
    /\ max_iterations = 3
    /\ AllBelowTarget(loop_result[1].critiques)
    /\ Len(loop_result[1].critiques) = 3
    /\ loop_result[1].critiques[1].overall_score > loop_result[1].critiques[3].overall_score

\* C5 as stated: every rewrite of the loop is handed the caller's original
\* text, with the critique of the same iteration.
C5_Original ==
    \A k \in DOMAIN LoopRewrites :
        /\ LoopRewrites[k].text = ORIGINAL
        /\ LoopRewrites[k].critique = LoopCritiques[k].out.value

\* C5 amended: every rewrite of the loop is handed the loop's current text,
\* the one critiqued on that iteration (the original on iteration 1, the
\* output of the previous rewrite afterwards), with that critique.
C5_RewritesCurrentText ==
    \A k \in DOMAIN LoopRewrites :
        /\ LoopRewrites[k].text = LoopCritiques[k].text
        /\ LoopRewrites[k].text =
              (IF k = 1 THEN ORIGINAL ELSE LoopRewrites[k - 1].out.value)
        /\ LoopRewrites[k].critique = LoopCritiques[k].out.value

\* C5 witness: a second rewrite in one run.
C5_Witness ==
    /\ Len(LoopRewrites) >= 2
    /\ LoopRewrites[2].text # ORIGINAL

IsCritique(e) == e.op = "critique"
Critiques == SelectSeq(calls, IsCritique)

\* the reply is a JSON object whose fields fit the schema of the critique
InExpectedShape(reply) ==
    /\ reply.json
    /\ reply.type = "object"
    /\ LET ws == Get(reply.value, "weaknesses", <<>>)
           score == Get(reply.value, "overall_score", 5)
       IN  /\ 1 <= score /\ score <= 10
           /\ \A i \in DOMAIN ws :
                 {"type", "description", "suggestion"} \subseteq DOMAIN ws[i]

\* the degraded result: one weakness of type "unknown", score 5, not ready
IsDegraded(out) ==
    /\ ~out.raised
    /\ Len(out.value.weaknesses) = 1
    /\ out.value.weaknesses[1].type = "unknown"
    /\ out.value.overall_score = 5
    /\ ~out.value.is_ready

\* C6 as stated: a critique whose reply is not in the expected shape (not
\* JSON, or JSON that violates the schema) returns the degraded result and
\* does not raise.
C6_Original ==
    \A k \in DOMAIN calls :
        (calls[k].op = "critique" /\ ~calls[k].reply.fails
            /\ ~InExpectedShape(calls[k].reply))
        => IsDegraded(calls[k].out)

\* C7: a critique whose inference call fails raises; it is the last call of
\* the run, the operation ends with the error, returns nothing and saves
\* nothing, at every critique site.
C7_CritiqueFailurePropagates ==
    \A k \in DOMAIN calls :
        (calls[k].op = "critique" /\ calls[k].reply.fails)
        => /\ calls[k].out.raised
           /\ k = Len(calls)
           /\ pc = "raised"
           /\ error # None
           /\ result = None
           /\ loop_result = None
           /\ db = <<>>

\* C7 witness: the re-check after the single-shot rewrite fails.
C7_Witness ==
    /\ pc = "raised"
    /\ calls # <<>>
    /\ Last(calls).op = "critique"
    /\ Last(calls).site = "single"
    /\ Last(calls).reply.fails

\* C8: a rewrite whose inference call fails raises; it is the last call of
\* the run, the loop and refine_prompt end with the error and return nothing
\* (so never the text they had as the improved text).
C8_RewriteFailurePropagates ==
    \A k \in DOMAIN calls :
        (calls[k].op = "rewrite" /\ calls[k].reply.fails)
        => /\ calls[k].out.raised
           /\ k = Len(calls)
           /\ pc = "raised"
           /\ error # None
           /\ result = None
           /\ loop_result = None
           /\ db = <<>>

\* C8 witness: the second rewrite of the loop fails inside refine_prompt.
C8_Witness ==
    /\ op = "refine_prompt"
    /\ pc = "raised"
    /\ Len(LoopRewrites) = 2
    /\ Last(calls).op = "rewrite"
    /\ Last(calls).reply.fails

Terminated == pc \in {"done", "raised"}

CallFailed(opname) ==
    \E k \in DOMAIN calls :
        /\ calls[k].op = opname
        /\ IF opname = "save" THEN calls[k].fails ELSE calls[k].reply.fails

C9_Safe ==
    /\ pc = "raised" =>
          /\ Last(calls).op \in {"critique", "rewrite"}
          /\ Last(calls).out.raised
    /\ (op = "refine_prompt" /\ pc = "done") =>
          /\ result # None
          /\ result[1].original_prompt = ORIGINAL
          /\ result[1].improved_prompt = Count("rewrite")
          /\ result[1].category \in PromptCategory
          /\ result[1].critique = Last(Critiques).out.value
          /\ result[1].iterations_used = iterations_used
          /\ result[1].explanation =
                (IF CallFailed("explain") THEN FALLBACK_EXPLANATION ELSE "explanation")
          /\ result[1].improvement_delta \in -9 .. 9

\* C9: refine_prompt ends, and only a critique or a rewrite that raised makes
\* it end with an error: failures of classification, gap detection,
\* explanation and save leave a populated RefinementResult (a failed
\* explanation leaves the fallback sentence).
C9_AdvisoryFailuresSwallowed ==
    /\ []C9_Safe
    /\ <>Terminated

\* C9 witness: refine_prompt returned although classification, gap
\* detection, explanation and save all failed.
C9_Witness ==
    /\ op = "refine_prompt"
    /\ pc = "done"
    /\ result # None
    /\ CallFailed("classify")
    /\ CallFailed("validate")
    /\ CallFailed("explain")
    /\ CallFailed("save")

\* C10: improvement_delta is score_after - score_before, the scores of the
\* final critique and of the initial critique of the original text, and a
\* saved record holds the same two scores.
C10_DeltaExact ==
    (op = "refine_prompt" /\ result # None) =>
        LET before == Critiques[1].out.value.overall_score
            after == result[1].critique.overall_score
        IN  /\ Critiques[1].site = "analyze"
            /\ Critiques[1].text = ORIGINAL
            /\ result[1].critique = Last(Critiques).out.value
            /\ result[1].improvement_delta = after - before
            /\ \A i \in DOMAIN db :
                  db[i].score_before = before /\ db[i].score_after = after

\* C10 witness: a saved run whose score went down.
C10_Witness ==
    /\ op = "refine_prompt"
    /\ result # None
    /\ result[1].improvement_delta < 0
    /\ db # <<>>

\* the positions of the calls of one kind
Positions(opname) == {k \in DOMAIN calls : calls[k].op = opname}

\* what holds of the call in progress or just ended, and of the collection
C11_OncePerRun ==
    /\ (op = "refine_prompt" /\ result # None) =>
          /\ Count("save") = 1
          /\ Last(calls).op = "save"
          /\ calls[Len(calls) - 1].op = "explain"
          /\ \A k \in Positions("critique") : k < Len(calls) - 1
          /\ Last(calls).fails \/ (db # <<>> /\ Last(db) = Last(calls).history)
    /\ pc = "raised" => Count("save") = 0
    /\ op # "refine_prompt" => Count("save") = 0
    /\ Len(db) = returned - save_failed
    /\ save_failed = 0 => Len(db) = returned

\* a step removes no record and changes none: it leaves the collection as it
\* is or adds one record at its end
C11_AppendOnly ==
    /\ Len(db') \in {Len(db), Len(db) + 1}
    /\ SubSeq(db', 1, Len(db)) = db

\* C11: every refine_prompt call that returns has made exactly one save
\* attempt, as its last call, after the final critique and the explanation;
\* a call that raised, and an analysis, made none; no step of any operation
\* removes or changes a stored record; so over calls made one after the other
\* the number of records is the number of refine_prompt calls that returned
\* less the inserts that failed, and equals it when the store never failed.
C11_HistoryAppendOnly ==
    /\ []C11_OncePerRun
    /\ [][C11_AppendOnly]_vars

\* C11 witness: the second call of a session returned, after a first that
\* returned too, and the collection holds the two records.
C11_Witness ==
    /\ call_no = 2
    /\ op = "refine_prompt"
    /\ result # None
    /\ returned = 2
    /\ save_failed = 0
    /\ Len(db) = 2

\* what every critique, rewrite, record and result of a refine_prompt call
\* carries: the category the one classification returned
C12_Carried ==
    op = "refine_prompt" =>
        /\ Count("classify") <= 1
        /\ \A k \in DOMAIN calls : calls[k].op = "classify" <=> k = 1
        /\ \A k \in DOMAIN calls :
              calls[k].op \in {"critique", "rewrite", "validate"}
                  => calls[k].category = calls[1].out[1]
        /\ \A k \in Positions("save") : calls[k].history.category = calls[1].out[1]
        /\ \A i \in DOMAIN db : db[i].category = calls[1].out[1]
        /\ result # None => result[1].category = calls[1].out[1]

\* once classification has returned, no step changes the category
C12_Fixed == (op = "refine_prompt" /\ pc # "classify") => category' = category

\* C12: a refine_prompt call classifies once, as its first call; every
\* critique and rewrite after it, the saved record and the returned result
\* carry the category that classification returned, and the category does
\* not change between the iterations of the loop.
C12_CategoryFixed ==
    /\ []C12_Carried
    /\ [][C12_Fixed]_vars

\* C12 witness: a saved run of two loop iterations whose category, taken
\* from the service, is not the one the keywords of the text give.
C12_Witness ==
    /\ op = "refine_prompt"
    /\ result # None
    /\ db # <<>>
    /\ Len(LoopRewrites) >= 2
    /\ result[1].category = "creative"
    /\ CategoryRouter_detect_with_keywords(prompt)[1] = "code"

\* C13: every CritiqueResult a critique call returns, parsed or degraded,
\* has overall_score in 1..10, whatever score the reply carried; so the two
\* scores of every run are in 1..10 and improvement_delta is in -9..9.
C13_ScoreInRange ==
    /\ \A k \in Positions("critique") :
          ~calls[k].out.raised =>
              1 <= calls[k].out.value.overall_score
                  /\ calls[k].out.value.overall_score <= 10
    /\ \A i \in DOMAIN critiques_history :
          critiques_history[i].overall_score \in 1 .. 10
    /\ \A i \in DOMAIN db :
          db[i].score_before \in 1 .. 10 /\ db[i].score_after \in 1 .. 10
    /\ (op = "refine_prompt" /\ result # None) =>
          /\ result[1].critique.overall_score \in 1 .. 10
          /\ result[1].improvement_delta \in -9 .. 9

\* a critique call of the run got a reply carrying this score
ReplyCarried(score) ==
    \E k \in Positions("critique") :
        /\ ~calls[k].reply.fails
        /\ calls[k].reply.json
        /\ calls[k].reply.type = "object"
        /\ "overall_score" \in DOMAIN calls[k].reply.value
        /\ calls[k].reply.value["overall_score"] = score

\* C13 witness: after an initial critique that returned, the re-check of the
\* rewritten text got a reply with score 11.
C13_Witness ==
    /\ op = "refine_prompt"
    /\ Count("critique") = 2
    /\ ~calls[2].out.raised
    /\ ReplyCarried(11)

IsCoreCall(e) == e.op # "save_session"
CoreCalls == SelectSeq(calls, IsCoreCall)
AnalyzeOrder == <<"classify", "critique", "validate">>

InSeq(x, seq) == \E i \in DOMAIN seq : seq[i] = x

\* C15 as stated: the critique analyze_prompt returns lists every missing
\* parameter of gap detection and every missing parameter the critique call
\* reported.
C15_Original ==
    (op = "analyze_prompt" /\ result # None) =>
        LET reported == calls[2].out.value.missing_params
            detected == ParameterValidator_validate(calls[3].reply)
            merged == result[1].critique.missing_params
        IN  /\ \A i \in DOMAIN detected : InSeq(detected[i], merged)
            /\ \A i \in DOMAIN reported : InSeq(reported[i], merged)

\* the snapshot bot.analyze_prompt builds from a returned analysis
Snapshot ==
    [user_id |-> USER, current_prompt |-> ORIGINAL,
     current_category |-> result[1].category, awaiting_response |-> None]

\* C16 as stated: after a successful analysis made by either front end the
\* user's session holds the snapshot of the text and its category.
C16_Original ==
    (op = "analyze_prompt" /\ front_end \in {"bot", "api"} /\ pc = "done"
        /\ result # None)
    => sessions = Some(Snapshot)

\* C16 amended: the conversational front end follows a successful analysis
\* by one save_session of the snapshot (text, resolved category) of the
\* user, which the collection then holds unless the store failed; the HTTP
\* front end and the core operation record no session; a failed analysis
\* records none; and no analysis writes a history record.
C16_SnapshotByBotOnly ==
    op = "analyze_prompt" =>
        /\ db = <<>>
        /\ Count("save_session") <= 1
        /\ (front_end # "bot" \/ result = None) =>
              Count("save_session") = 0 /\ sessions = None
        /\ (front_end = "bot" /\ pc = "done") =>
              /\ Count("save_session") = 1
              /\ Last(calls).op = "save_session"
              /\ Last(calls).session = Snapshot
              /\ sessions = (IF Last(calls).fails THEN None ELSE Some(Snapshot))

\* C16 witness: the conversational front end recorded the snapshot.
C16_Witness ==
    /\ op = "analyze_prompt"
    /\ front_end = "bot"
    /\ pc = "done"
    /\ sessions = Some(Snapshot)

\* the reply is one detect_category accepts: a JSON object naming one of the
\* seven categories with a confidence of 0.7 or more
Accepted(reply) ==
    /\ ~reply.fails
    /\ reply.json
    /\ reply.type = "object"
    /\ {"category", "confidence"} \subseteq DOMAIN reply.value
    /\ reply.value["category"] \in
          {"code", "creative", "image_generation", "analysis", "business",
           "education", "general"}
    /\ reply.value["confidence"] >= 70

\* C17: detect_category returns the category and confidence of the reply
\* exactly when the call succeeded and the reply is accepted; in every other
\* case it returns what the keyword fallback gives for the same text; it
\* always returns.
C17_FallbackExactly ==
    \A k \in Positions("classify") :
        calls[k].out =
            (IF Accepted(calls[k].reply)
                THEN <<calls[k].reply.value["category"], calls[k].reply.value["confidence"]>>
                ELSE CategoryRouter_detect_with_keywords(prompt))

\* C17 witness: a reply with confidence 0.69 fell back to the keywords, and
\* a reply with confidence 0.7 was taken.
C17_Witness ==
    /\ op = "detect_category"
    /\ Len(calls) = 2
    /\ Accepted(calls[1].reply) /\ calls[1].reply.value["confidence"] = 70
    /\ calls[1].out = <<"analysis", 70>>
    /\ ~calls[2].reply.fails /\ ~Accepted(calls[2].reply)
    /\ calls[2].reply.json /\ calls[2].reply.type = "object"
    /\ "confidence" \in DOMAIN calls[2].reply.value
    /\ calls[2].reply.value["confidence"] = 69
    /\ calls[2].out[1] = "code"

\* C18 as stated: every value detect_category returns has one of the seven
\* categories and a confidence in [0, 1], whatever the reply carries.
C18_Original ==
    \A k \in Positions("classify") :
        /\ calls[k].out[1] \in
              {"code", "creative", "image_generation", "analysis", "business",
               "education", "general"}
        /\ 0 <= calls[k].out[2] /\ calls[k].out[2] <= 100

\* the number of keywords of row i of the table that the text holds
Hits(i) == Cardinality(keyword_hints[i].keywords \cap prompt)

\* n is the largest number of hits of a row
IsLargest(n) ==
    /\ \E i \in DOMAIN keyword_hints : Hits(i) = n
    /\ \A i \in DOMAIN keyword_hints : Hits(i) <= n

\* the classify calls that went to the keywords
Fallbacks == {k \in Positions("classify") : ~Accepted(calls[k].reply)}

\* C19: the keyword fallback returns (general, 0.3) when no keyword matches,
\* and otherwise a category with the largest number n of matched keywords
\* with confidence min(0.9, 0.3 + 0.15 n); two calls on the same text return
\* the same pair.
C19_KeywordFallback ==
    /\ \A k \in Fallbacks :
          IF IsLargest(0) THEN calls[k].out = <<"general", 30>>
          ELSE \E i \in DOMAIN keyword_hints :
                  /\ IsLargest(Hits(i))
                  /\ calls[k].out[1] = keyword_hints[i].category
                  /\ calls[k].out[2] =
                        (IF 30 + 15 * Hits(i) <= 90 THEN 30 + 15 * Hits(i) ELSE 90)
    /\ \A k \in Fallbacks : \A m \in Fallbacks : calls[k].out = calls[m].out

\* C19 witness: a text with five keywords of one category was classified
\* twice by the fallback, after different replies, at the cap.
C19_Witness ==
    /\ op = "detect_category"
    /\ Fallbacks = {1, 2}
    /\ calls[1].reply # calls[2].reply
    /\ IsLargest(5)
    /\ calls[2].out = <<"code", 90>>

TableOrder ==
    <<"code", "image_generation", "creative", "analysis", "business", "education">>

\* the text matches one code keyword, one creative keyword that no other
\* category shares, and no more
ScenarioA ==
    /\ Cardinality(prompt) = 2
    /\ Hits(1) = 1
    /\ Hits(3) = 1
    /\ \A i \in DOMAIN keyword_hints : i \notin {1, 3} => Hits(i) = 0

\* C20: the table lists the categories in the order code, image_generation,
\* creative, analysis, business, education, and among the categories with
\* the largest number of matches the fallback returns the first of them; a
\* text of Scenario A classified while the service is down comes out as code
\* with a confidence in [0.3, 0.9].
C20_FirstInTableWins ==
    /\ \A i \in DOMAIN keyword_hints : keyword_hints[i].category = TableOrder[i]
    /\ \A k \in Fallbacks :
          ~IsLargest(0) =>
              \E i \in DOMAIN keyword_hints :
                  /\ IsLargest(Hits(i))
                  /\ \A j \in DOMAIN keyword_hints : IsLargest(Hits(j)) => i <= j
                  /\ calls[k].out[1] = TableOrder[i]
    /\ \A k \in Positions("classify") :
          (calls[k].reply.fails /\ ScenarioA) =>
              /\ calls[k].out[1] = "code"
              /\ 30 <= calls[k].out[2] /\ calls[k].out[2] <= 90

\* C20 witness: Scenario A classified with the service down.
C20_Witness ==
    /\ op = "detect_category"
    /\ calls # <<>>
    /\ Last(calls).reply.fails
    /\ ScenarioA
    /\ Last(calls).out = <<"code", 45>>

\* the reply of the validator's call cannot be read: the call failed, the
\* text is not a JSON object, or an entry lacks a key that is read
Unreadable(reply) ==
    \/ reply.fails
    \/ ~reply.json
    \/ reply.type # "object"
    \/ \E i \in DOMAIN Get(reply.value, "missing", <<>>) :
          ~({"name", "question"} \subseteq DOMAIN reply.value.missing[i])
    \/ \E i \in DOMAIN Get(reply.value, "found", <<>>) :
          "name" \notin DOMAIN reply.value.found[i]

\* C21: gap detection never blocks the pipeline: when its call fails or its
\* reply cannot be read (call error, text that is not JSON, an entry without
\* name or question) validate returns the empty list, no exception leaves
\* the operation at that step, the analysis is returned with an empty gap
\* list and no questions, and a refinement goes on with an empty gap list.
C21_NeverBlocks ==
    \A k \in Positions("validate") :
        Unreadable(calls[k].reply) =>
            /\ calls[k].out = <<>>
            /\ ~(pc = "raised" /\ k = Len(calls))
            /\ initial_critique # None
            /\ initial_critique[1].missing_params = <<>>
            /\ op = "analyze_prompt" =>
                  /\ result # None
                  /\ result[1].critique.missing_params = <<>>
                  /\ result[1].questions = <<>>
            /\ op = "refine_prompt" => pc # "validate"

\* C21 witness: an analysis returned although the second entry of the
\* validator's reply had no question.
C21_Witness ==
    /\ op = "analyze_prompt"
    /\ pc = "done"
    /\ Last(calls).op = "validate"
    /\ Last(calls).reply = MixedMissing
    /\ result[1].questions = <<>>

\* C26 (as stated): in every result refine_prompt returns, the critique is
\* the outcome of a critique call made on the text returned as
\* improved_prompt.
C26_Original ==
    (op = "refine_prompt" /\ result # None) =>
        \E k \in Positions("critique") :
            /\ calls[k].text = result[1].improved_prompt
            /\ ~calls[k].out.raised
            /\ calls[k].out.value = result[1].critique

\* the critique of the caller's prompt made by the analysis met the target
OriginalMeetsTarget ==
    \E k \in Positions("critique") :
        /\ calls[k].site = "analyze"
        /\ ~calls[k].out.raised
        /\ TargetReached(calls[k].out.value, TARGET_SCORE)

\* C27 (as stated): refine_prompt with use_iterations runs the loop for every
\* max_iterations >= 1; with max_iterations = 1 and a caller's prompt whose
\* critique meets the target it makes no rewrite and returns the caller's
\* prompt with iterations_used = 1.
C27_Original ==
    (op = "refine_prompt" /\ use_iterations /\ max_iterations >= 1) =>
        /\ \A k \in DOMAIN calls : calls[k].site # "single"
        /\ (max_iterations = 1 /\ result # None /\ OriginalMeetsTarget) =>
              /\ Count("rewrite") = 0
              /\ result[1].improved_prompt = ORIGINAL
              /\ result[1].iterations_used = 1

\* C27 (amended): refine_prompt runs the loop exactly when use_iterations
\* holds and max_iterations > 1; otherwise, max_iterations = 1 included, it
\* makes one rewrite of the caller's prompt and one critique of the outcome,
\* whatever the critique of the caller's prompt said, and returns the
\* rewritten text with iterations_used = 1.
C27_LoopAboveOne ==
    op = "refine_prompt" =>
        /\ \A k \in DOMAIN calls :
              /\ calls[k].site = "loop" => (use_iterations /\ max_iterations > 1)
              /\ calls[k].site = "single" => ~(use_iterations /\ max_iterations > 1)
        /\ (result # None /\ use_iterations /\ max_iterations > 1) =>
              LoopCritiques # <<>>
        /\ (result # None /\ ~(use_iterations /\ max_iterations > 1)) =>
              /\ Count("rewrite") = 1
              /\ \A k \in Positions("rewrite") :
                    /\ calls[k].site = "single"
                    /\ calls[k].text = ORIGINAL
                    /\ ~calls[k].out.raised
                    /\ result[1].improved_prompt = calls[k].out.value
                    /\ \E j \in Positions("critique") :
                          /\ j > k
                          /\ calls[j].text = calls[k].out.value
              /\ result[1].improved_prompt # ORIGINAL
              /\ result[1].iterations_used = 1

\* C27 witness: use_iterations with max_iterations = 1 and a caller's prompt
\* whose critique met the target: the result holds a rewritten text.
C27_Witness ==
    /\ op = "refine_prompt"
    /\ use_iterations
    /\ max_iterations = 1
    /\ result # None
    /\ OriginalMeetsTarget
    /\ Count("rewrite") = 1
    /\ result[1].improved_prompt # ORIGINAL

\* C28 (as stated): every rewrite call made during a run of refine_prompt
\* receives the user_answers the caller passed.
C28_Original ==
    op = "refine_prompt" =>
        \A k \in Positions("rewrite") : calls[k].user_answers = USER_ANSWERS

\* the tier get_questions_for_missing sorts by
Tier(p) == IF p.importance = "required" THEN 0 ELSE 1

\* entry i of the list comes before entry j in the stable ordering
Before(i, j) ==
    \/ Tier(missing_params_in[i]) < Tier(missing_params_in[j])
    \/ Tier(missing_params_in[i]) = Tier(missing_params_in[j]) /\ i < j

\* the place of entry j in the stable ordering
Rank(j) == Cardinality({i \in DOMAIN missing_params_in : Before(i, j)}) + 1

\* the question made of a parameter
Question(p) == <<IF p.importance = "required" THEN "!" ELSE "?", p.question>>

\* C22: for every list of missing parameters and every k >= 0,
\* get_questions_for_missing returns at most k questions; the questions of
\* required parameters come before all others, the questions of one tier
\* keep the order of the input, and the output is exactly the first
\* min(k, length) entries of that stable ordering.
C22_RankAndTruncate ==
    (op = "get_questions_for_missing" /\ pc = "done") =>
        LET out == result[1]
            n == Len(missing_params_in)
        IN  /\ Len(out) <= max_questions_in
            /\ Len(out) = (IF max_questions_in < n THEN max_questions_in ELSE n)
            /\ \A j \in DOMAIN missing_params_in :
                  Rank(j) <= Len(out) =>
                      out[Rank(j)] = Question(missing_params_in[j])
            /\ \A a, b \in DOMAIN out : (a < b /\ out[b][1] = "!") => out[a][1] = "!"

\* C22 witness: a recommended parameter followed by two required ones, cut
\* to two questions.
C22_Witness ==
    /\ op = "get_questions_for_missing"
    /\ pc = "done"
    /\ Len(missing_params_in) = 3
    /\ missing_params_in[1].name = "audience"
    /\ missing_params_in[2].name = "language"
    /\ missing_params_in[3].name = "context"
    /\ max_questions_in = 2
    /\ result[1] = <<<<"!", "q_language">>, <<"!", "q_context">>>>

\* the improvement of a stored record
Delta(d) == d.score_after - d.score_before

\* the stored record qualifies for the query
Qualifies(d) ==
    /\ Delta(d) >= query[1].min_improvement
    /\ query[1].category # None => d.category = query[1].category[1]

\* record a does not rank below record b
RanksAtLeast(a, b) ==
    \/ Delta(a) > Delta(b)
    \/ Delta(a) = Delta(b) /\ a.score_after >= b.score_after

\* C23: get_top_improvements returns only stored records whose improvement
\* is at least min_improvement and whose category is the given one when one
\* is given, each once, at most limit of them, ordered by improvement
\* descending and then score_after descending; it returns as many as
\* qualify up to limit, and no qualifying record it leaves out ranks above
\* one it returns.
C23_TopImprovements ==
    (op = "get_top_improvements" /\ pc = "done") =>
        LET out == result[1]
            qualifying == {i \in DOMAIN db : Qualifies(db[i])}
            returned_ids == {out[a].id : a \in DOMAIN out}
        IN  /\ \A a \in DOMAIN out :
                  /\ out[a].id \in qualifying
                  /\ out[a].category = db[out[a].id].category
                  /\ out[a].score_before = db[out[a].id].score_before
                  /\ out[a].score_after = db[out[a].id].score_after
                  /\ out[a].improvement = Delta(db[out[a].id])
                  /\ out[a].improvement >= query[1].min_improvement
            /\ \A a, b \in DOMAIN out : a # b => out[a].id # out[b].id
            /\ Len(out) <= query[1].limit
            /\ Len(out) = (IF Cardinality(qualifying) < query[1].limit
                           THEN Cardinality(qualifying) ELSE query[1].limit)
            /\ \A a, b \in DOMAIN out : a < b => RanksAtLeast(out[a], out[b])
            /\ \A i \in qualifying \ returned_ids :
                  \A a \in DOMAIN out : RanksAtLeast(out[a], db[i])

\* C23 witness: three qualifying records of one category stored in rising
\* order of rank, and the two best returned, the best first.
C23_Witness ==
    /\ op = "get_top_improvements"
    /\ pc = "done"
    /\ query[1] = [category |-> Some("code"), min_improvement |-> 3, limit |-> 2]
    /\ Len(db) = 3
    /\ Delta(db[1]) = 3 /\ db[1].score_after = 7
    /\ Delta(db[2]) = 3 /\ db[2].score_after = 9
    /\ Delta(db[3]) = 5
    /\ Len(result[1]) = 2
    /\ result[1][1].id = 3
    /\ result[1][2].id = 2

\* C24 (as stated): after any interleaving of save_session and clear_session
\* by concurrent handlers the collection holds at most one session per
\* user, and get_session returns the state the most recent save_session of
\* that user wrote, or nothing if a clear_session came later.
C24_Original ==
    op = "handlers" =>
        \A u \in Users :
            /\ Cardinality(DocsOf(sessions, u)) <= 1
            /\ MongoDB_get_session(sessions, u) =
                  (IF last_write[u].kind = "save" THEN last_write[u].state ELSE None)

\* the handlers of text messages of the user
MessagesOf(u) ==
    {h \in DOMAIN handlers : handlers[h].kind = "handle_message" /\ handlers[h].user = u}

\* the message is on the refine branch of handle_message
AsRefine(h) == handlers[h].pc \in {"clear", "refine"} \/ handlers[h].processed = "refine"

\* the session the handler read was a pending improve request
ReadPending(h) ==
    /\ handlers[h].session # None
    /\ handlers[h].session[1].awaiting_response = Some("improve")

\* the collection holds a pending improve request of the user
HoldsPending(u) ==
    \E i \in DocsOf(sessions, u) : sessions[i].awaiting_response = Some("improve")

C25_InitOnce ==
    op = "process" =>
        /\ clients_created <= 1
        /\ pc = "serving" => (clients_created = 1 /\ MongoDB_client = Some(1))
        /\ \A t \in DOMAIN threads :
              /\ threads[t].pc # "mongo_create"
              /\ threads[t].client # None => threads[t].client = Some(1)

\* C25 witness: requests of both kinds have constructed and used their
\* MongoDB() and one client exists.
C25_Witness ==
    /\ op = "process"
    /\ \A t \in DOMAIN threads : threads[t].pc = "done" /\ threads[t].client = Some(1)
    /\ \E t, r \in DOMAIN threads :
          threads[t].kind = "webhook" /\ threads[r].kind = "api_stats"
    /\ clients_created = 1

\* C30 (as stated): over any interleaving of webhook updates processed on the
\* shared event loop, bot_app.initialize() is invoked at most once, and
\* process_update is not invoked before an initialize() call has completed.
C30_Original ==
    (op = "process" /\ loops_created <= 1) =>
        /\ initialize_calls <= 1
        /\ \A t \in DOMAIN threads :
              threads[t].pc \in {"mongo", "mongo_create", "use_db"} /\ threads[t].kind = "webhook"
                  => threads[t].initialized_before

====
